---- MODULE Spec2Model ----
(***************************************************************************)
(* Model of the axum-demo key-value service: the in-memory store           *)
(* (src/repo/db.rs), the HTTP handlers (src/api/handler.rs), the shared    *)
(* application state (src/dependency.rs), the router assembly              *)
(* (src/main.rs, src/route.rs) and the tower pipeline (src/middleware.rs). *)
(*                                                                         *)
(* Specifications:                                                         *)
(*   SpecStore  a single caller driving InMemoryDatabase directly, as the  *)
(*              unit test of db.rs does;                                   *)
(*   Spec       the running service as main assembles it;                  *)
(*   SpecTimed  Spec with the wall clock observed (request deadlines);     *)
(*   SpecPoison Spec with a handler that panics while holding its locks;   *)
(*   SpecErr    handle_tower_error applied to boxed errors.                *)
(***************************************************************************)
EXTENDS Integers, Sequences, FiniteSets, TLC

\* ------------------------------------------------------------- bounds

\* Number of store calls the single caller of SpecStore makes.
MaxCalls == 3
\* Number of HTTP requests the service receives.
MaxRequests == 3
\* Number of boxed errors handed to handle_tower_error in SpecErr.
MaxErrors == 3
\* application.max_concurrent_requests of the loaded settings (10240 unless
\* configured otherwise, configuration.rs:106).
max_concurrent_requests == 1

\* --------------------------------------------------------- input domains

Keys == {"foo", "key1"}
\* "" is the empty value upsert_by_key rejects; the store itself accepts it.
Values == {"", "bar", "baz"}

\* Option<V>: None is the empty sequence, Some(v) the one-element sequence.
None == <<>>
Some(v) == <<v>>

\* A HashMap entry in the middle of being written (visible only to a thread
\* that looks at the map while HashMap::insert is running).
Torn == "<torn>"

VARIABLES
    map,        \* InMemoryDatabase.map: the HashMap, a function on a subset of Keys
    inner,      \* the RwLock around the HashMap (db.rs:15)
    outer,      \* the RwLock around the database, ApplicationState.db (dependency.rs:14)
    permits,    \* permits taken from the semaphore of each ConcurrencyLimit instance
    req,        \* the HTTP requests: input, position in the handler, response
    calls,      \* SpecStore: the store calls made so far, with their results
    handled     \* SpecErr: the errors given to handle_tower_error, with the responses

vars == <<map, inner, outer, permits, req, calls, handled>>

\* ------------------------------------------------ std::collections::HashMap

\* HashMap::new()
HashMapNew == [k \in {} |-> ""]

\* HashMap::insert(key, value): adds the entry or replaces its value.
HashMapInsertIfAbsent(m, key, value) ==
    IF key \in DOMAIN m THEN m
    ELSE [k \in DOMAIN m \cup {key} |-> IF k = key THEN value ELSE m[k]]

HashMapInsert(m, key, value) ==
    [k \in DOMAIN m \cup {key} |-> IF k = key THEN value ELSE m[k]]

\* HashMap::get(key).cloned()
HashMapGetNone(m, key) == None

HashMapGet(m, key) == IF key \in DOMAIN m THEN Some(m[key]) ELSE None

\* HashMap::remove(key)
HashMapRemoveNothing(m, key) == m

HashMapRemove(m, key) == [k \in DOMAIN m \ {key} |-> m[k]]

\* HashMap::entry(key).and_modify(|old| *old = new_value): changes the value
\* of an occupied entry and leaves a vacant entry vacant.
HashMapEntryOrInsert(m, key, new_value) == HashMapInsert(m, key, new_value)

HashMapEntryKeep(m, key, new_value) == m

HashMapEntryAndModify(m, key, new_value) ==
    IF key \in DOMAIN m THEN [m EXCEPT ![key] = new_value] ELSE m

\* ------------------------------------------------------- std::sync::RwLock

\* A lock is the set of holders of its read guards, the set (empty or of one)
\* of holders of its write guard, and its poison flag.

\* RwLock::new(..): nobody holds it, it is not poisoned.
RwLockNew == [readers |-> {}, writer |-> {}, poisoned |-> FALSE]

\* RwLock::read() returns once no writer holds the lock.
CanRead(lock) == lock.writer = {}
\* RwLock::write() returns once nobody holds the lock.
CanWriteBesideReaders(lock) == lock.writer = {}

CanWrite(lock) == lock.writer = {} /\ lock.readers = {}

\* The LockResult of read()/write(): Err(PoisonError) on a poisoned lock.
LockResult(lock) == IF lock.poisoned THEN "Err" ELSE "Ok"

\* .unwrap_or_else(|poisoned| poisoned.into_inner()): the guard either way.
UnwrapOrIntoInner(result) == "guard"
\* .unwrap(): the guard, or a panic on Err.
Unwrap(result) == IF result = "Ok" THEN "guard" ELSE "panic"

\* ------------------------------------------------------ axum::http::StatusCode

OK == 200
BAD_REQUEST == 400
NOT_FOUND == 404
REQUEST_TIMEOUT == 408
INTERNAL_SERVER_ERROR == 500
SERVICE_UNAVAILABLE == 503

\* ------------------------------------------------------------ axum::Router

\* The endpoints a request can be routed to are "root", "read_by_key",
\* "upsert_by_key" and the "fallback" every router has, which answers what
\* matches no route. A router is the set of routes added to it and the set of
\* endpoints wrapped in the pipeline of add_middleware.

\* Router::new()
RouterNew == [routes |-> {}, layered |-> {}]

\* Router::route(path, method(handler)): the new route is added as it is,
\* outside every layer the router was given before.
Route(r, endpoint) == [r EXCEPT !.routes = @ \cup {endpoint}]

\* Router::nest(path, router)
Nest(r, sub) == [routes |-> r.routes \cup sub.routes, layered |-> r.layered \cup sub.layered]

\* Router::layer(layer): wraps the routes the router has at the time of the
\* call, and its fallback; each gets a service of its own from the layer.
Layer(r) == [r EXCEPT !.layered = r.routes \cup {"fallback"}]

get_api_routes == Route(Route(RouterNew, "read_by_key"), "upsert_by_key")

add_routes(r) == Nest(Route(r, "root"), get_api_routes)

add_middleware(r) == Layer(r)

\* The router main builds: the middleware first, the routes after it.
router == add_routes(add_middleware(RouterNew))

\* The route a request is dispatched to.
Match(method, path) ==
    IF path = <<>> /\ method = "GET" /\ "root" \in router.routes
        THEN "root"
    ELSE IF Len(path) = 2 /\ path[1] = "api" /\ method = "GET" /\ "read_by_key" \in router.routes
        THEN "read_by_key"
    ELSE IF Len(path) = 2 /\ path[1] = "api" /\ method = "POST" /\ "upsert_by_key" \in router.routes
        THEN "upsert_by_key"
    ELSE "fallback"

\* ---------------------------------------------------------------- requests

Reqs == 1..MaxRequests

\* What clients send: GET /, GET /api/{key}, POST /api/{key} with the JSON
\* body {"value": value}, and GET of a path no route matches.
Lines ==
    {[method |-> "GET", path |-> <<>>, value |-> ""]}
    \cup {[method |-> "GET", path |-> <<"api", k>>, value |-> ""] : k \in Keys}
    \cup {[method |-> "POST", path |-> <<"api", k>>, value |-> v] : k \in Keys, v \in Values}
    \cup {[method |-> "GET", path |-> <<"nope">>, value |-> ""]}

\* The bytes of a header value that are not visible ASCII.
NonAscii == "<not visible ASCII>"

\* The X-Trace-ID header of a request: absent, a string, or bytes that are
\* no string.
XTraceID == {None, Some("trace-1"), Some(NonAscii)}

Inputs ==
    {[method |-> l.method, path |-> l.path, value |-> l.value, header |-> h] :
        l \in Lines, h \in XTraceID}

\* HeaderValue::to_str(..).ok()
to_str(value) == IF value = NonAscii THEN None ELSE Some(value)

\* Uuid::new_v4().to_string()
new_v4 == "<uuid v4>"

\* The trace_id of the span build_trace_span makes for a request.
build_trace_span(header) ==
    LET found == IF header = None THEN None ELSE to_str(header[1])
    IN  IF found = None THEN new_v4 ELSE found[1]

\* The trace_id of a request for which no span was made.
NoSpan == ""

\* A request that has not arrived.
Idle ==
    [pc |-> "idle", endpoint |-> "", key |-> "", value |-> "",
     status |-> 0, body |-> <<>>, elapsed |-> FALSE, trace_id |-> NoSpan]

\* A request is in flight from its arrival to its response (or its panic).
InFlight(r) == req[r].pc \in {"extract", "handler", "locked", "in_store", "inserting"}

NumInFlight == Cardinality({r \in Reqs : InFlight(r)})

Layered(endpoint) == endpoint \in router.layered

\* ------------------------------------------------------ handle_tower_error

\* The concrete types a BoxError can hold.
ErrorTypes ==
    {"tower::timeout::error::Elapsed", "tower::load_shed::error::Overloaded",
     "std::io::Error", "std::fmt::Error", "hyper::Error"}

handle_tower_error_same(error) ==
    IF error = "tower::timeout::error::Elapsed"
        THEN [status |-> SERVICE_UNAVAILABLE, body |-> <<"Service is overloaded, try again later.">>]
    ELSE IF error = "tower::load_shed::error::Overloaded"
        THEN [status |-> SERVICE_UNAVAILABLE, body |-> <<"Service is overloaded, try again later.">>]
    ELSE [status |-> INTERNAL_SERVER_ERROR, body |-> <<"Internal server error.">>]

handle_tower_error(error) ==
    IF error = "tower::timeout::error::Elapsed"
        THEN [status |-> REQUEST_TIMEOUT, body |-> <<"Request timed out.">>]
    ELSE IF error = "tower::load_shed::error::Overloaded"
        THEN [status |-> SERVICE_UNAVAILABLE, body |-> <<"Service is overloaded, try again later.">>]
    ELSE [status |-> INTERNAL_SERVER_ERROR, body |-> <<"Internal server error.">>]

\* ---------------------------------------------------- the pipeline's gate

\* The first position of a request in its endpoint: upsert_by_key first
\* awaits the request body (its Json extractor), the others run at once.
FirstPc(endpoint) == IF endpoint = "upsert_by_key" THEN "extract" ELSE "handler"

\* The response leaves: the request is done and, if its endpoint is wrapped in
\* the pipeline, its permit goes back to the semaphore.
RespondAndRetry(r, status, body) ==
    /\ req' = [req EXCEPT ![r].pc = FirstPc(req[r].endpoint),
                          ![r].status = status, ![r].body = body]
    /\ permits' = permits

RespondKeepPermit(r, status, body) ==
    /\ req' = [req EXCEPT ![r].pc = "done", ![r].status = status, ![r].body = body]
    /\ permits' = permits

Respond(r, status, body) ==
    /\ req' = [req EXCEPT ![r].pc = "done", ![r].status = status, ![r].body = body]
    /\ permits' = IF Layered(req[r].endpoint)
                      THEN [permits EXCEPT ![req[r].endpoint] = @ - 1]
                      ELSE permits

\* A request arrives (requests are numbered in the order of their arrival) and
\* is routed. An endpoint wrapped in the pipeline is entered through
\* load_shed and concurrency_limit: with a permit left the request takes it
\* and goes on under the timeout; with none left it is answered at once with
\* what handle_tower_error makes of Overloaded. TraceLayer is the innermost
\* layer: it makes the span of a request that has passed the gate. An endpoint
\* outside the pipeline is entered directly.
Request(r, in) ==
    /\ req[r].pc = "idle"
    /\ \A q \in Reqs : q < r => req[q].pc # "idle"
    /\ LET endpoint == Match(in.method, in.path)
           arrived == [Idle EXCEPT !.endpoint = endpoint,
                                   !.key = IF Len(in.path) = 2 THEN in.path[2] ELSE "",
                                   !.value = in.value]
       IN  IF Layered(endpoint) /\ permits[endpoint] >= max_concurrent_requests
               THEN /\ req' = [req EXCEPT ![r] =
                           [arrived EXCEPT
                               !.pc = "done",
                               !.status = handle_tower_error("tower::load_shed::error::Overloaded").status,
                               !.body = handle_tower_error("tower::load_shed::error::Overloaded").body]]
                    /\ permits' = permits
               ELSE /\ req' = [req EXCEPT ![r] =
                           [arrived EXCEPT
                               !.pc = FirstPc(endpoint),
                               !.trace_id = IF Layered(endpoint)
                                                THEN build_trace_span(in.header)
                                                ELSE NoSpan]]
                    /\ permits' = IF Layered(endpoint)
                                      THEN [permits EXCEPT ![endpoint] = @ + 1]
                                      ELSE permits
    /\ UNCHANGED <<map, inner, outer, calls, handled>>

\* ----------------------------------------------------------------- handlers

At(r, endpoint, pc) == req[r].endpoint = endpoint /\ req[r].pc = pc

\* A handler panics: its task ends without a response. The guards it held
\* are dropped; nothing of the pipeline catches the panic.
Panicked(r) ==
    /\ req' = [req EXCEPT ![r].pc = "panicked"]
    /\ permits' = IF Layered(req[r].endpoint)
                      THEN [permits EXCEPT ![req[r].endpoint] = @ - 1]
                      ELSE permits

\* GET /: the closure of add_routes.
root(r) ==
    /\ At(r, "root", "handler")
    /\ Respond(r, OK, <<"Root dir">>)
    /\ UNCHANGED <<map, inner, outer, calls, handled>>

\* The router's fallback, under the timeout: it is ready at its first poll.
fallback(r) ==
    /\ At(r, "fallback", "handler")
    /\ Respond(r, NOT_FOUND, <<>>)
    /\ UNCHANGED <<map, inner, outer, calls, handled>>

\* read_by_key, line 25: state.db.read().unwrap()
read_by_key_lock(r) ==
    /\ At(r, "read_by_key", "handler")
    /\ CanRead(outer)
    /\ IF Unwrap(LockResult(outer)) = "panic"
           THEN Panicked(r) /\ outer' = outer
           ELSE /\ outer' = [outer EXCEPT !.readers = @ \cup {r}]
                /\ req' = [req EXCEPT ![r].pc = "locked"]
                /\ permits' = permits
    /\ UNCHANGED <<map, inner, calls, handled>>

\* InMemoryDatabase::read, lines 70-74: self.map.read(), poison recovered
db_read_lock(r) ==
    /\ At(r, "read_by_key", "locked")
    /\ CanRead(inner)
    /\ UnwrapOrIntoInner(LockResult(inner)) = "guard"
    /\ inner' = [inner EXCEPT !.readers = @ \cup {r}]
    /\ req' = [req EXCEPT ![r].pc = "in_store"]
    /\ UNCHANGED <<map, outer, permits, calls, handled>>

\* InMemoryDatabase::read, line 76, and read_by_key, lines 27-31: the value
\* is cloned out of the map, both guards are dropped, and the handler answers
\* 200 with the value or 404.
read_by_key_respond(r) ==
    /\ At(r, "read_by_key", "in_store")
    /\ inner' = [inner EXCEPT !.readers = @ \ {r}]
    /\ outer' = [outer EXCEPT !.readers = @ \ {r}]
    /\ LET value == HashMapGet(map, req[r].key)
       IN  IF value # None
               THEN Respond(r, OK, value)
               ELSE Respond(r, NOT_FOUND, <<>>)
    /\ UNCHANGED <<map, calls, handled>>

\* upsert_by_key, line 42: the Json extractor has read the body.
json_extract(r) ==
    /\ At(r, "upsert_by_key", "extract")
    /\ req' = [req EXCEPT ![r].pc = "handler"]
    /\ UNCHANGED <<map, inner, outer, permits, calls, handled>>

\* upsert_by_key, line 44: state.db.write().unwrap()
upsert_by_key_lock(r) ==
    /\ At(r, "upsert_by_key", "handler")
    /\ CanWrite(outer)
    /\ IF Unwrap(LockResult(outer)) = "panic"
           THEN Panicked(r) /\ outer' = outer
           ELSE /\ outer' = [outer EXCEPT !.writer = {r}]
                /\ req' = [req EXCEPT ![r].pc = "locked"]
                /\ permits' = permits
    /\ UNCHANGED <<map, inner, calls, handled>>

\* String::is_empty
is_empty_never(value) == FALSE

is_empty(value) == Len(value) = 0

\* The guard of either kind that r holds on the lock is dropped.
UnlockLeak(lock, r) == lock

Unlock(lock, r) ==
    [lock EXCEPT !.readers = @ \ {r}, !.writer = @ \ {r}]

\* upsert_by_key, lines 46-48: an empty value is answered 400 and the guard
\* is dropped.
upsert_by_key_reject(r) ==
    /\ At(r, "upsert_by_key", "locked")
    /\ is_empty(req[r].value)
    /\ outer' = Unlock(outer, r)
    /\ Respond(r, BAD_REQUEST, <<>>)
    /\ UNCHANGED <<map, inner, calls, handled>>

\* upsert_by_key, line 50, and InMemoryDatabase::upsert, lines 57-61:
\* self.map.write(), poison recovered
db_upsert_lock(r) ==
    /\ At(r, "upsert_by_key", "locked")
    /\ ~is_empty(req[r].value)
    /\ CanWrite(inner)
    /\ UnwrapOrIntoInner(LockResult(inner)) = "guard"
    /\ inner' = [inner EXCEPT !.writer = {r}]
    /\ req' = [req EXCEPT ![r].pc = "in_store"]
    /\ UNCHANGED <<map, outer, permits, calls, handled>>

\* InMemoryDatabase::upsert, line 63: map.insert starts writing the entry.
db_upsert_insert_unguarded(r) ==
    /\ At(r, "upsert_by_key", "in_store")
    /\ map' = HashMapInsert(map, req[r].key, Torn)
    /\ inner' = Unlock(inner, r)
    /\ outer' = Unlock(outer, r)
    /\ req' = [req EXCEPT ![r].pc = "inserting"]
    /\ UNCHANGED <<permits, calls, handled>>

db_upsert_insert(r) ==
    /\ At(r, "upsert_by_key", "in_store")
    /\ map' = HashMapInsert(map, req[r].key, Torn)
    /\ req' = [req EXCEPT ![r].pc = "inserting"]
    /\ UNCHANGED <<inner, outer, permits, calls, handled>>

\* InMemoryDatabase::upsert, lines 63-64, and upsert_by_key, line 51: the
\* entry is written, both guards are dropped and the handler answers 200.
upsert_by_key_respond(r) ==
    /\ At(r, "upsert_by_key", "inserting")
    /\ map' = HashMapInsert(map, req[r].key, req[r].value)
    /\ inner' = Unlock(inner, r)
    /\ outer' = Unlock(outer, r)
    /\ Respond(r, OK, <<"Value written for key: ", req[r].key>>)
    /\ UNCHANGED <<calls, handled>>

\* ApplicationState::default() and the router of main, no request arrived.
Init ==
    /\ map = HashMapNew
    /\ inner = RwLockNew
    /\ outer = RwLockNew
    /\ permits = [e \in router.layered |-> 0]
    /\ req = [r \in Reqs |-> Idle]
    /\ calls = <<>>
    /\ handled = <<>>

Next ==
    \/ \E r \in Reqs, in \in Inputs : Request(r, in)
    \/ \E r \in Reqs : root(r)
    \/ \E r \in Reqs : fallback(r)
    \/ \E r \in Reqs : read_by_key_lock(r)
    \/ \E r \in Reqs : db_read_lock(r)
    \/ \E r \in Reqs : read_by_key_respond(r)
    \/ \E r \in Reqs : json_extract(r)
    \/ \E r \in Reqs : upsert_by_key_lock(r)
    \/ \E r \in Reqs : upsert_by_key_reject(r)
    \/ \E r \in Reqs : db_upsert_lock(r)
    \/ \E r \in Reqs : db_upsert_insert(r)
    \/ \E r \in Reqs : upsert_by_key_respond(r)

Spec == Init /\ [][Next]_vars

\* ------------------------------------------------------- the wall clock

\* request_timeout_s have passed since request r arrived and r has not been
\* answered yet. Only a request under the timeout layer has a timer; the
\* fallback, the one endpoint under it, is ready at its first poll, and a
\* Timeout future returns a ready response before it looks at its timer.
deadline(r) ==
    /\ InFlight(r)
    /\ ~req[r].elapsed
    /\ req' = [req EXCEPT ![r].elapsed = TRUE]
    /\ UNCHANGED <<map, inner, outer, permits, calls, handled>>

NextTimed ==
    \/ Next
    \/ \E r \in Reqs : deadline(r)

SpecTimed == Init /\ [][NextTimed]_vars

\* ------------------------------------------- a service that never stops

\* The requests of a stream of reads and upserts of one key.
LiveInputs ==
    {in \in Inputs : in.path = <<"api", "foo">> /\ in.value # "baz" /\ in.header = None}

\* The connection of an answered request carries the next request.
recycle(r) ==
    /\ req[r].pc = "done"
    /\ req' = [req EXCEPT ![r] = Idle]
    /\ UNCHANGED <<map, inner, outer, permits, calls, handled>>

NextLive ==
    \/ \E r \in Reqs, in \in LiveInputs : Request(r, in)
    \/ \E r \in Reqs : read_by_key_lock(r)
    \/ \E r \in Reqs : db_read_lock(r)
    \/ \E r \in Reqs : read_by_key_respond(r)
    \/ \E r \in Reqs : json_extract(r)
    \/ \E r \in Reqs : upsert_by_key_lock(r)
    \/ \E r \in Reqs : upsert_by_key_reject(r)
    \/ \E r \in Reqs : db_upsert_lock(r)
    \/ \E r \in Reqs : db_upsert_insert(r)
    \/ \E r \in Reqs : upsert_by_key_respond(r)
    \/ \E r \in Reqs : recycle(r)

\* The runtime schedules every task: a handler that can go on does go on,
\* and a handler that can take a lock again and again does take it. When
\* clients send requests is up to them.
Fairness ==
    \A r \in Reqs :
        /\ SF_vars(read_by_key_lock(r))
        /\ SF_vars(db_read_lock(r))
        /\ WF_vars(read_by_key_respond(r))
        /\ SF_vars(upsert_by_key_lock(r))
        /\ WF_vars(upsert_by_key_reject(r))
        /\ SF_vars(db_upsert_lock(r))
        /\ WF_vars(db_upsert_insert(r))
        /\ WF_vars(upsert_by_key_respond(r))

SpecLive == Init /\ [][NextLive]_vars /\ Fairness

\* The next step of the handler of a store request r.
HandlerStep(r) ==
    \/ read_by_key_lock(r) \/ db_read_lock(r) \/ read_by_key_respond(r)
    \/ upsert_by_key_lock(r) \/ upsert_by_key_reject(r) \/ db_upsert_lock(r)
    \/ db_upsert_insert(r) \/ upsert_by_key_respond(r)

\* The requests of the store endpoints, each sent once.
NextOnce ==
    \/ \E r \in Reqs, in \in LiveInputs : Request(r, in)
    \/ \E r \in Reqs : json_extract(r)
    \/ \E r \in Reqs : HandlerStep(r)

\* The runtime runs a handler task that stays able to go on.
Scheduled == \A r \in Reqs : WF_vars(HandlerStep(r))

SpecFair == Init /\ [][NextOnce]_vars /\ Scheduled

\* ------------------------------------------------ a panic under the locks

\* upsert_by_key panics between taking its guards and the insertion (in the
\* handler, or inside db.upsert): unwinding drops the guards, and a write
\* guard dropped during a panic poisons its lock. The task ends without a
\* response.
panic_in_upsert(r) ==
    /\ req[r].endpoint = "upsert_by_key"
    /\ req[r].pc \in {"locked", "in_store"}
    /\ outer' = [Unlock(outer, r) EXCEPT !.poisoned = @ \/ r \in outer.writer]
    /\ inner' = [Unlock(inner, r) EXCEPT !.poisoned = @ \/ r \in inner.writer]
    /\ req' = [req EXCEPT ![r].pc = "crashed"]
    /\ permits' = IF Layered(req[r].endpoint)
                      THEN [permits EXCEPT ![req[r].endpoint] = @ - 1]
                      ELSE permits
    /\ UNCHANGED <<map, calls, handled>>

NextPoison ==
    \/ Next
    \/ \E r \in Reqs : panic_in_upsert(r)

SpecPoison == Init /\ [][NextPoison]_vars

\* ------------------------------------------- handle_tower_error, by itself

\* The pipeline hands a boxed error to handle_tower_error.
handle(error) ==
    /\ Len(handled) < MaxErrors
    /\ handled' = Append(handled, [error |-> error, response |-> handle_tower_error(error)])
    /\ UNCHANGED <<map, inner, outer, permits, req, calls>>

NextErr == \E error \in ErrorTypes : handle(error)

SpecErr == Init /\ [][NextErr]_vars

\* ------------------------------------------- InMemoryDatabase, one caller

\* A record of one store call: the operation, its arguments, its result and
\* the map before and after it.
Call(op, key, value, ret, pre, post) ==
    [op |-> op, key |-> key, value |-> value, ret |-> ret, pre |-> pre, post |-> post]

\* The four operations take the map's lock (recovering a poisoned one), act
\* on the HashMap and drop the guard before they return; a single caller
\* never finds the lock held.
StoreCallable ==
    /\ Len(calls) < MaxCalls
    /\ CanWrite(inner)
    /\ UnwrapOrIntoInner(LockResult(inner)) = "guard"

upsert(key, value) ==
    /\ StoreCallable
    /\ map' = HashMapInsert(map, key, value)
    /\ calls' = Append(calls, Call("upsert", key, value, None, map, map'))
    /\ UNCHANGED <<inner, outer, permits, req, handled>>

read(key) ==
    /\ StoreCallable
    /\ calls' = Append(calls, Call("read", key, "", HashMapGet(map, key), map, map))
    /\ UNCHANGED <<map, inner, outer, permits, req, handled>>

remove(key) ==
    /\ StoreCallable
    /\ map' = HashMapRemove(map, key)
    /\ calls' = Append(calls, Call("remove", key, "", None, map, map'))
    /\ UNCHANGED <<inner, outer, permits, req, handled>>

update(key, new_value) ==
    /\ StoreCallable
    /\ map' = HashMapEntryAndModify(map, key, new_value)
    /\ calls' = Append(calls, Call("update", key, new_value, None, map, map'))
    /\ UNCHANGED <<inner, outer, permits, req, handled>>

\* InMemoryDatabase::new() and nothing else of the service running.
InitStore ==
    /\ map = HashMapNew
    /\ inner = RwLockNew
    /\ outer = RwLockNew
    /\ permits = [e \in router.layered |-> 0]
    /\ req = [r \in Reqs |-> Idle]
    /\ calls = <<>>
    /\ handled = <<>>

NextStore ==
    \/ \E k \in Keys, v \in Values : upsert(k, v)
    \/ \E k \in Keys : read(k)
    \/ \E k \in Keys : remove(k)
    \/ \E k \in Keys, v \in Values : update(k, v)

SpecStore == InitStore /\ [][NextStore]_vars

\* ---------------------------------------------------- claims on the store

IsWrite(c) == c.op \in {"upsert", "update", "remove"}

\* No call strictly between positions i and j writes to key.
NoWriteBetween(i, j, key) ==
    \A n \in (i + 1)..(j - 1) : ~(IsWrite(calls[n]) /\ calls[n].key = key)

\* Every key other than key has the same entry (or none) in both maps.
SameElsewhere(pre, post, key) ==
    \A k \in Keys \ {key} : HashMapGet(post, k) = HashMapGet(pre, k)

\* C1: upsert(k, v) followed, with no write to k in between, by read(k)
\* returns v, whether k was absent or present before, and the upsert changes
\* no other key's entry.
C1_UpsertThenRead ==
    \A i \in 1..Len(calls) :
        calls[i].op = "upsert" =>
            /\ SameElsewhere(calls[i].pre, calls[i].post, calls[i].key)
            /\ \A j \in (i + 1)..Len(calls) :
                   ( /\ calls[j].op = "read"
                     /\ calls[j].key = calls[i].key
                     /\ NoWriteBetween(i, j, calls[i].key) )
                   => calls[j].ret = Some(calls[i].value)

\* A key was inserted, then overwritten with a different non-empty value, and
\* a read returned the second value.
C1_Witness ==
    /\ Len(calls) = 3
    /\ calls[1].op = "upsert" /\ calls[2].op = "upsert" /\ calls[3].op = "read"
    /\ calls[1].key = calls[2].key /\ calls[3].key = calls[2].key
    /\ calls[1].value # calls[2].value /\ calls[2].value # ""
    /\ calls[3].ret = Some(calls[2].value)

\* C2: update(k, v) on a store without k leaves the whole mapping unchanged:
\* no entry for k appears, a following read(k) returns not-found, and every
\* other key keeps its value.
C2_UpdateAbsentNoOp ==
    \A i \in 1..Len(calls) :
        (calls[i].op = "update" /\ calls[i].key \notin DOMAIN calls[i].pre) =>
            /\ calls[i].post = calls[i].pre
            /\ \A j \in (i + 1)..Len(calls) :
                   ( /\ calls[j].op = "read"
                     /\ calls[j].key = calls[i].key
                     /\ NoWriteBetween(i, j, calls[i].key) )
                   => calls[j].ret = None

\* An update of an absent key, with another key present, then a read of it.
C2_Witness ==
    /\ Len(calls) = 3
    /\ calls[1].op = "upsert"
    /\ calls[2].op = "update" /\ calls[2].key # calls[1].key
    /\ calls[3].op = "read" /\ calls[3].key = calls[2].key
    /\ calls[3].ret = None
    /\ DOMAIN map = {calls[1].key}

\* C3: remove(k) followed, with no write to k in between, by read(k) returns
\* not-found whether k was present or absent, and the remove changes no other
\* key's entry.
C3_RemoveThenRead ==
    \A i \in 1..Len(calls) :
        calls[i].op = "remove" =>
            /\ SameElsewhere(calls[i].pre, calls[i].post, calls[i].key)
            /\ calls[i].key \notin DOMAIN calls[i].post
            /\ \A j \in (i + 1)..Len(calls) :
                   ( /\ calls[j].op = "read"
                     /\ calls[j].key = calls[i].key
                     /\ NoWriteBetween(i, j, calls[i].key) )
                   => calls[j].ret = None

\* A present key was removed and then read as not-found.
C3_Witness ==
    /\ Len(calls) = 3
    /\ calls[1].op = "upsert"
    /\ calls[2].op = "remove" /\ calls[2].key = calls[1].key
    /\ calls[3].op = "read" /\ calls[3].key = calls[1].key
    /\ calls[3].ret = None

\* -------------------------------------------------- claims on the service

StoreEndpoints == {"read_by_key", "upsert_by_key"}

\* Request r takes a step.
Steps(r) == req'[r] # req[r]

\* C4: a POST /api/{key} with the empty value is answered 400 and never
\* changes the store: no step of such a request changes the mapping, and its
\* response, once given, is 400.
C4_EmptyValueRejected ==
    [][\A r \in Reqs :
          ( /\ Steps(r)
            /\ req'[r].endpoint = "upsert_by_key"
            /\ req'[r].value = "" )
          => /\ map' = map
             /\ req'[r].pc \notin {"in_store", "inserting", "panicked"}
             /\ req'[r].pc = "done" => req'[r].status = BAD_REQUEST]_vars

\* An empty value was refused for a key that holds a value, next to a key
\* that holds none.
C4_Witness ==
    \E r \in Reqs :
        /\ req[r].endpoint = "upsert_by_key" /\ req[r].value = ""
        /\ req[r].pc = "done" /\ req[r].status = BAD_REQUEST
        /\ DOMAIN map = {req[r].key}
        /\ map[req[r].key] = "bar"

\* C5: GET /api/{key} answers 200 with the value stored under key at that
\* moment if the key is present and 404 if it is absent, and no step of the
\* request changes the mapping.
C5_GetAnswers ==
    [][\A r \in Reqs :
          (Steps(r) /\ req'[r].endpoint = "read_by_key")
          => /\ map' = map
             /\ req'[r].pc # "panicked"
             /\ req'[r].pc = "done" =>
                    IF req[r].key \in DOMAIN map
                        THEN /\ req'[r].status = OK
                             /\ req'[r].body = <<map[req[r].key]>>
                        ELSE req'[r].status = NOT_FOUND]_vars

\* One GET was answered 200 with the stored value and another 404.
C5_Witness ==
    \E r, q \in Reqs :
        /\ req[r].endpoint = "read_by_key" /\ req[r].pc = "done"
        /\ req[r].status = OK /\ req[r].body = <<"bar">>
        /\ req[q].endpoint = "read_by_key" /\ req[q].pc = "done"
        /\ req[q].status = NOT_FOUND /\ req[q].body = <<>>

\* The upsert requests for key that carry a value the handler accepts.
Upserts(key) ==
    {r \in Reqs : /\ req[r].endpoint = "upsert_by_key"
                  /\ req[r].key = key
                  /\ req[r].value # ""}

UpsertValues(key) == {req[r].value : r \in Upserts(key)}

\* C6: when several requests upsert the same key concurrently, then under
\* every interleaving, once all of them have returned the store holds one
\* entry for the key with the value of one of them, and every read answered
\* meanwhile returns a whole value: one of theirs or not-found (the store
\* starts empty), never a partly written entry.
C6_ConcurrentUpserts ==
    \A k \in Keys :
        /\ ( /\ Upserts(k) # {}
             /\ \A r \in Upserts(k) : req[r].pc = "done" )
           => /\ k \in DOMAIN map
              /\ map[k] \in UpsertValues(k)
              /\ \A r \in Upserts(k) : req[r].status = OK
        /\ \A r \in Reqs :
              ( /\ req[r].endpoint = "read_by_key"
                /\ req[r].key = k
                /\ req[r].pc = "done" )
              => \/ req[r].status = NOT_FOUND
                 \/ /\ req[r].status = OK
                    /\ \E v \in UpsertValues(k) : req[r].body = <<v>>

\* Two upserts of different values to one key have both returned, the one
\* that arrived second wrote first, and a read that arrived after both saw
\* the value of the first.
C6_Witness ==
    /\ req[1].endpoint = "upsert_by_key" /\ req[2].endpoint = "upsert_by_key"
    /\ req[1].key = req[2].key /\ req[1].value = "bar" /\ req[2].value = "baz"
    /\ req[1].pc = "done" /\ req[2].pc = "done"
    /\ req[3].endpoint = "read_by_key" /\ req[3].key = req[1].key
    /\ req[3].pc = "done" /\ req[3].body = <<"bar">>
    /\ map[req[1].key] = "bar"

\* C7: with max_concurrent_requests requests in flight, one more request
\* arriving at a store endpoint is answered 503 at once and never enters its
\* handler.
C7_ShedAtCapacity ==
    [][\A r \in Reqs :
          ( /\ req[r].pc = "idle"
            /\ req'[r].pc # "idle"
            /\ req'[r].endpoint \in StoreEndpoints
            /\ NumInFlight >= max_concurrent_requests )
          => /\ req'[r].pc = "done"
             /\ req'[r].status = SERVICE_UNAVAILABLE]_vars

\* C8: a request to a store endpoint whose handling has not completed when
\* request_timeout_s have elapsed is answered 408, a status other than the
\* 503 of an overload rejection, and one that completes before the deadline
\* is never answered 408.
C8_TimedOutReported ==
    /\ REQUEST_TIMEOUT # SERVICE_UNAVAILABLE
    /\ \A r \in Reqs :
          (req[r].endpoint \in StoreEndpoints /\ req[r].pc = "done") =>
              (req[r].elapsed <=> req[r].status = REQUEST_TIMEOUT)

\* The class of an error: timed out, overloaded, or anything else.
ErrorClass(error) ==
    IF error = "tower::timeout::error::Elapsed" THEN "timed out"
    ELSE IF error = "tower::load_shed::error::Overloaded" THEN "overloaded"
    ELSE "internal"

\* C9: handle_tower_error answers every error with one of three results: an
\* elapsed deadline with 408 'Request timed out.', a shed load with 503
\* 'Service is overloaded, try again later.', any other error with 500
\* 'Internal server error.'; errors of different classes get results that
\* differ in status and in message.
C9_ThreeWayClassification ==
    /\ \A i \in 1..Len(handled) :
          LET class == ErrorClass(handled[i].error)
              response == handled[i].response
          IN  /\ class = "timed out" =>
                    response = [status |-> REQUEST_TIMEOUT, body |-> <<"Request timed out.">>]
              /\ class = "overloaded" =>
                    response = [status |-> SERVICE_UNAVAILABLE,
                                body |-> <<"Service is overloaded, try again later.">>]
              /\ class = "internal" =>
                    response = [status |-> INTERNAL_SERVER_ERROR,
                                body |-> <<"Internal server error.">>]
    /\ \A i, j \in 1..Len(handled) :
          ErrorClass(handled[i].error) # ErrorClass(handled[j].error)
          => /\ handled[i].response.status # handled[j].response.status
             /\ handled[i].response.body # handled[j].response.body

\* An error of each class has been answered.
C9_Witness ==
    /\ Len(handled) = 3
    /\ ErrorClass(handled[1].error) = "timed out"
    /\ ErrorClass(handled[2].error) = "overloaded"
    /\ ErrorClass(handled[3].error) = "internal"
    /\ handled[3].response.status = INTERNAL_SERVER_ERROR

\* C10: after a holder of a store lock has panicked while holding it, every
\* later read or upsert request still completes normally: no handler panics
\* on the poisoned lock.
C10_PoisonInvisible ==
    \A r \in Reqs : req[r].pc # "panicked"

\* C11: in the router main assembles, a request to a store endpoint is in its
\* handler only after it has passed the concurrency gate, that is, while it
\* holds a permit of the gate in front of that endpoint.
C11_NoBypass ==
    \A r \in Reqs :
        (req[r].endpoint \in StoreEndpoints /\ InFlight(r))
        => /\ req[r].endpoint \in DOMAIN permits
           /\ permits[req[r].endpoint] >= 1

\* The requests that are inside the map with a write guard, and with a read
\* guard.
Mutating ==
    {r \in Reqs : req[r].endpoint = "upsert_by_key" /\ req[r].pc \in {"in_store", "inserting"}}

Reading ==
    {r \in Reqs : req[r].endpoint = "read_by_key" /\ req[r].pc = "in_store"}

\* C12: at most one request is mutating the mapping, and while one is, no
\* other request is reading or mutating it. (That several requests may read
\* at once is shown by the witness.)
C12_OneWriterOrReaders ==
    /\ Cardinality(Mutating) <= 1
    /\ Mutating # {} => Reading = {}
    /\ \A k \in DOMAIN map : map[k] = Torn => Mutating # {}

\* Two requests are reading the map at once while an upsert waits for the
\* exclusive lock.
C12_Witness ==
    /\ Cardinality(Reading) >= 2
    /\ \E r \in Reqs : At(r, "upsert_by_key", "handler")

\* C13: update(k, v) on a store that holds k overwrites k's value, so that a
\* following read(k), with no write to k in between, returns v, and the
\* update changes no other key's entry.
C13_UpdatePresent ==
    \A i \in 1..Len(calls) :
        (calls[i].op = "update" /\ calls[i].key \in DOMAIN calls[i].pre) =>
            /\ HashMapGet(calls[i].post, calls[i].key) = Some(calls[i].value)
            /\ SameElsewhere(calls[i].pre, calls[i].post, calls[i].key)
            /\ \A j \in (i + 1)..Len(calls) :
                   ( /\ calls[j].op = "read"
                     /\ calls[j].key = calls[i].key
                     /\ NoWriteBetween(i, j, calls[i].key) )
                   => calls[j].ret = Some(calls[i].value)

\* A key was inserted, updated to a different value and read back, as in the
\* unit test of db.rs.
C13_Witness ==
    /\ Len(calls) = 3
    /\ calls[1].op = "upsert"
    /\ calls[2].op = "update" /\ calls[2].key = calls[1].key
    /\ calls[2].value # calls[1].value
    /\ calls[3].op = "read" /\ calls[3].key = calls[1].key
    /\ calls[3].ret = Some(calls[2].value)

\* The requests that are executing a route handler.
InRouteHandler ==
    {r \in Reqs : InFlight(r) /\ req[r].endpoint \in {"root", "read_by_key", "upsert_by_key"}}

\* C14: the number of requests executing a route handler is at most
\* max_concurrent_requests.
C14_BoundedHandlers ==
    Cardinality(InRouteHandler) <= max_concurrent_requests

\* C15: last writer wins. When two upserts of one key race, the one that
\* holds the exclusive lock while the other has already returned is the one
\* that acquired it second; when it returns the key holds its value, not the
\* value of the first. The key's entry changes in no step but those of the
\* holder of the exclusive lock, so that is what a following read returns.
C15_LastWriterWins ==
    [][/\ \A r \in Reqs :
             ( /\ r \in outer.writer
               /\ req'[r].pc = "done"
               /\ req'[r].status = OK )
             => /\ req[r].key \in DOMAIN map'
                /\ map'[req[r].key] = req[r].value
       /\ \A k \in Keys :
             HashMapGet(map', k) # HashMapGet(map, k)
             => \E r \in outer.writer : req[r].key = k /\ Steps(r)]_vars

\* Two upserts of different values to one key have both returned, the second
\* to arrive wrote last, and a read that arrived after both saw its value.
C15_Witness ==
    /\ req[1].endpoint = "upsert_by_key" /\ req[2].endpoint = "upsert_by_key"
    /\ req[1].key = req[2].key /\ req[1].value = "bar" /\ req[2].value = "baz"
    /\ req[1].pc = "done" /\ req[2].pc = "done"
    /\ req[3].endpoint = "read_by_key" /\ req[3].key = req[1].key
    /\ req[3].pc = "done" /\ req[3].body = <<"baz">>
    /\ map[req[1].key] = "baz"

\* The order of the positions of a request.
Rank(pc) ==
    CASE pc = "idle" -> 0
      [] pc = "extract" -> 1
      [] pc = "handler" -> 2
      [] pc = "locked" -> 3
      [] pc = "in_store" -> 4
      [] pc = "inserting" -> 5
      [] OTHER -> 6

\* The terminal states of a request.
Completed(q) == q.pc = "done" /\ q.status \in {OK, BAD_REQUEST, NOT_FOUND}
TimedOut(q) == q.pc = "done" /\ q.status = REQUEST_TIMEOUT
Rejected(q) == q.pc = "done" /\ q.status = SERVICE_UNAVAILABLE

\* C16: every request follows Admitted -> Dispatched -> Completed,
\* Admitted -> Dispatched -> TimedOut, or Rejected(Overloaded): a request that
\* ends is in exactly one of the three terminal states, it is Rejected only
\* straight from its arrival and Completed or TimedOut only after it was
\* dispatched, it never leaves a terminal state, and it never goes back to an
\* earlier position (no retry).
C16_RequestStateMachine ==
    [][\A r \in Reqs :
          /\ req[r].pc = "done" => req'[r] = req[r]
          /\ Rank(req'[r].pc) >= Rank(req[r].pc)
          /\ req'[r].status # 0 <=> req'[r].pc = "done"
          /\ (req[r].pc # "done" /\ req'[r].pc = "done") =>
                /\ Cardinality({t \in {"completed", "timed out", "rejected"} :
                       \/ t = "completed" /\ Completed(req'[r])
                       \/ t = "timed out" /\ TimedOut(req'[r])
                       \/ t = "rejected" /\ Rejected(req'[r])}) = 1
                /\ Rejected(req'[r]) <=> req[r].pc = "idle"]_vars

\* One request was rejected as overloaded while another was dispatched, and
\* that one has completed.
C16_Witness ==
    \E r, q \in Reqs :
        /\ Rejected(req[r])
        /\ Completed(req[q]) /\ req[q].endpoint = "fallback"
        /\ \E p \in Reqs : Completed(req[p]) /\ req[p].endpoint = "upsert_by_key"

\* C17: trace correlation is the first stage, so every request that has
\* arrived, one that was load-shed included, carries a trace identifier.
C17_EveryRequestTraced ==
    \A r \in Reqs : req[r].pc # "idle" => req[r].trace_id # NoSpan

\* C18: readers never block writers for ever. Under fair scheduling an
\* upsert request that waits for the exclusive lock eventually takes it and
\* completes, even while read requests keep arriving.
C18_WriterCompletes ==
    \A r \in Reqs :
        At(r, "upsert_by_key", "handler") ~> (req[r].endpoint = "upsert_by_key" /\ req[r].pc = "done")

\* The requests in flight at an endpoint, in the requests rq.
Holders(rq, e) ==
    {r \in Reqs : rq[r].endpoint = e
                  /\ rq[r].pc \in {"extract", "handler", "locked", "in_store", "inserting"}}

\* C20: the in-flight counter of the gate goes up by one when a request is
\* admitted and down by one when that request ends, and changes in no other
\* step: it always equals the number of requests in flight behind the gate,
\* so it is never negative, it is zero when none is in flight, and a request
\* that then arrives is admitted.
C20_CounterExact ==
    /\ [](\A e \in DOMAIN permits :
             /\ permits[e] = Cardinality(Holders(req, e))
             /\ permits[e] >= 0
             /\ Holders(req, e) = {} => permits[e] = 0)
    /\ [][\A e \in DOMAIN permits :
             /\ \A r \in Reqs :
                   /\ (r \in Holders(req', e) \ Holders(req, e))
                         => permits'[e] = permits[e] + 1
                   /\ (r \in Holders(req, e) \ Holders(req', e))
                         => permits'[e] = permits[e] - 1
                   /\ (req[r].pc = "idle" /\ req'[r].endpoint = e /\ permits[e] = 0)
                         => r \in Holders(req', e)
             /\ Holders(req', e) = Holders(req, e) => permits'[e] = permits[e]]_vars

\* A request behind the gate has ended and the counter has gone back to
\* zero, and the next request to arrive there was admitted.
C20_Witness ==
    \E r, q \in Reqs :
        /\ r < q
        /\ req[r].endpoint = "fallback" /\ req[r].pc = "done" /\ req[r].status = NOT_FOUND
        /\ req[q].endpoint = "fallback" /\ req[q].pc = "handler"
        /\ permits["fallback"] = 1

\* The requests that hold a guard of a lock.
Guards(lock) == lock.readers \cup lock.writer

\* A request that has started the handler of a store endpoint and has not
\* finished it.
Started(r) ==
    /\ req[r].endpoint \in StoreEndpoints
    /\ req[r].pc \in {"handler", "locked", "in_store", "inserting"}

\* C21: the store never deadlocks. A handler holds the inner lock only
\* under the outer lock, in the same mode; a request holds a lock only from
\* "locked" on (never while it awaits its body, the one place a handler
\* suspends) and none once it has answered; whenever a handler has started
\* some handler can take a step; and every request that has started a handler
\* finishes it.
C21_NoDeadlock ==
    /\ [](/\ inner.readers \subseteq outer.readers
          /\ inner.writer \subseteq outer.writer
          /\ \A r \in Reqs :
                /\ r \in Guards(outer) <=> req[r].pc \in {"locked", "in_store", "inserting"}
                /\ r \in Guards(inner) <=> req[r].pc \in {"in_store", "inserting"}
          /\ (\E r \in Reqs : Started(r)) => \E r \in Reqs : ENABLED HandlerStep(r))
    /\ \A r \in Reqs : Started(r) ~> (req[r].pc = "done")

\* One upsert waits for the outer lock that a read holds together with the
\* inner lock, after an earlier upsert went through both and answered.
C21_Witness ==
    \E w, r, d \in Reqs :
        /\ At(w, "upsert_by_key", "handler")
        /\ At(r, "read_by_key", "in_store")
        /\ r \in outer.readers /\ r \in inner.readers
        /\ ~CanWrite(outer)
        /\ At(d, "upsert_by_key", "done") /\ req[d].status = OK

====
